---- MODULE Spec2Model ----
(***************************************************************************)
(* Model of bacman's configuration core (src/modules/config.rs, main.rs):  *)
(* the resolver Config::resolve_backup_paths, the validator                *)
(* Config::validate, the loader deserialize_config and main's dispatch.    *)
(*                                                                         *)
(* A Rust String is a sequence of one-character strings, so that           *)
(* starts_with, ends_with, to_lowercase, format! and join are computed on  *)
(* characters.  Option<T> is a sequence of length 0 (None) or 1 (Some).    *)
(* Result<T, E> is a record [tag, val] with tag "Ok" or "Err".             *)
(***************************************************************************)
EXTENDS Integers, Sequences, FiniteSets, TLC

VARIABLES doc, fs, pc, resolved, errors, outcome, config, ran, result, watch_paths

vars == <<doc, fs, pc, resolved, errors, outcome, config, ran, result, watch_paths>>

(***************************************************************************)
(* Option and Result                                                       *)
(***************************************************************************)
None == <<>>

Some(v) == <<v>>

IsSome(o) == o # <<>>

Unwrap(o) == o[1]

Ok(v) == [tag |-> "Ok", val |-> v]

Err(e) == [tag |-> "Err", val |-> e]

(***************************************************************************)
(* String literals of the program                                          *)
(***************************************************************************)
FMT_DEFAULT_PROFILE_PRE == <<"D", "e", "f", "a", "u", "l", "t", " ", "p", "r", "o", "f", "i", "l", "e", " ", "'">>

FMT_DEFAULT_PROFILE_POST == <<"'", " ", "n", "o", "t", " ", "f", "o", "u", "n", "d">>

FMT_PATH_MISSING == <<"P", "a", "t", "h", " ", "d", "o", "e", "s", " ", "n", "o", "t", " ", "e", "x", "i", "s", "t", ":", " ">>

FMT_PROFILE_MISSING == <<"R", "e", "f", "e", "r", "e", "n", "c", "e", "d", " ", "p", "r", "o", "f", "i", "l", "e", " ", "n", "o", "t", " ", "f", "o", "u", "n", "d", ":", " ">>

FMT_BAD_METHOD == <<"I", "n", "v", "a", "l", "i", "d", " ", "b", "a", "c", "k", "u", "p", " ", "m", "e", "t", "h", "o", "d", ":", " ">>

FMT_BAD_INTERVAL == <<"I", "n", "v", "a", "l", "i", "d", " ", "i", "n", "t", "e", "r", "v", "a", "l", " ", "f", "o", "r", "m", "a", "t", ":", " ">>

FMT_DEST_INACCESSIBLE == <<"B", "a", "c", "k", "u", "p", " ", "d", "e", "s", "t", "i", "n", "a", "t", "i", "o", "n", " ", "n", "o", "t", " ", "a", "c", "c", "e", "s", "s", "i", "b", "l", "e", ":", " ">>

FMT_DEST_FORMAT == <<"I", "n", "v", "a", "l", "i", "d", " ", "b", "a", "c", "k", "u", "p", " ", "d", "e", "s", "t", "i", "n", "a", "t", "i", "o", "n", " ", "f", "o", "r", "m", "a", "t", ":", " ">>

FMT_NO_METHOD == <<"N", "o", " ", "b", "a", "c", "k", "u", "p", " ", "m", "e", "t", "h", "o", "d", " ", "s", "p", "e", "c", "i", "f", "i", "e", "d", " ", "f", "o", "r", " ", "p", "a", "t", "h", ":", " ">>

FMT_NO_DEST == <<"N", "o", " ", "b", "a", "c", "k", "u", "p", " ", "d", "e", "s", "t", "i", "n", "a", "t", "i", "o", "n", " ", "s", "p", "e", "c", "i", "f", "i", "e", "d", " ", "f", "o", "r", " ", "p", "a", "t", "h", ":", " ">>

FMT_INVALID == <<"I", "n", "v", "a", "l", "i", "d", " ", "c", "o", "n", "f", "i", "g", "u", "r", "a", "t", "i", "o", "n", ":", " ">>

FMT_NO_DIRS == <<"C", "o", "u", "l", "d", " ", "n", "o", "t", " ", "d", "e", "t", "e", "r", "m", "i", "n", "e", " ", "p", "r", "o", "j", "e", "c", "t", " ", "d", "i", "r", "e", "c", "t", "o", "r", "i", "e", "s">>

FMT_READ == <<"F", "a", "i", "l", "e", "d", " ", "t", "o", " ", "r", "e", "a", "d", " ", "c", "o", "n", "f", "i", "g", " ", "f", "i", "l", "e", ":", " ">>

FMT_PARSE == <<"F", "a", "i", "l", "e", "d", " ", "t", "o", " ", "p", "a", "r", "s", "e", " ", "c", "o", "n", "f", "i", "g", ":", " ">>

STR_local == <<"l", "o", "c", "a", "l">>

STR_git == <<"g", "i", "t">>

STR_gdrive == <<"g", "d", "r", "i", "v", "e">>

STR_pdrive == <<"p", "d", "r", "i", "v", "e">>

STR_dropbox == <<"d", "r", "o", "p", "b", "o", "x">>

STR_git_at == <<"g", "i", "t", "@">>

STR_https == <<"h", "t", "t", "p", "s", ":", "/", "/">>

STR_dot_slash == <<".", "/">>

(***************************************************************************)
(* std string primitives used by the program                               *)
(***************************************************************************)
starts_with(s, prefix) ==
    /\ Len(s) >= Len(prefix)
    /\ SubSeq(s, 1, Len(prefix)) = prefix

UpperToLower ==
    [c \in {"A","B","C","D","E","F","G","H","I","J","K","L","M",
            "N","O","P","Q","R","S","T","U","V","W","X","Y","Z"} |->
        CASE c = "A" -> "a" [] c = "B" -> "b" [] c = "C" -> "c" [] c = "D" -> "d"
          [] c = "E" -> "e" [] c = "F" -> "f" [] c = "G" -> "g" [] c = "H" -> "h"
          [] c = "I" -> "i" [] c = "J" -> "j" [] c = "K" -> "k" [] c = "L" -> "l"
          [] c = "M" -> "m" [] c = "N" -> "n" [] c = "O" -> "o" [] c = "P" -> "p"
          [] c = "Q" -> "q" [] c = "R" -> "r" [] c = "S" -> "s" [] c = "T" -> "t"
          [] c = "U" -> "u" [] c = "V" -> "v" [] c = "W" -> "w" [] c = "X" -> "x"
          [] c = "Y" -> "y" [] c = "Z" -> "z"]

to_lowercase(s) ==
    [i \in 1..Len(s) |-> IF s[i] \in DOMAIN UpperToLower THEN UpperToLower[s[i]] ELSE s[i]]

is_digit(c) == c \in {"0","1","2","3","4","5","6","7","8","9"}

RECURSIVE join(_, _)
join(v, sep) ==
    IF v = <<>> THEN <<>>
    ELSE IF Len(v) = 1 THEN v[1]
    ELSE v[1] \o sep \o join(Tail(v), sep)

contains_key(m, k) == k \in DOMAIN m

get(m, k) == IF k \in DOMAIN m THEN Some(m[k]) ELSE None

(***************************************************************************)
(* Config::resolve_backup_paths                                            *)
(***************************************************************************)
\* path.profile.and_then(get).or_else(|| default_profile.and_then(get))
EffectiveProfile(d, path) ==
    LET own == IF IsSome(path.profile) THEN get(d.profiles, Unwrap(path.profile)) ELSE None
        dflt == IF IsSome(d.global.default_profile)
                THEN get(d.profiles, Unwrap(d.global.default_profile))
                ELSE None
    IN  IF IsSome(own) THEN own ELSE dflt

\* <path field>.or_else(|| profile.and_then(|p| p.<field>))
or_else_profile_first(own, inherited) == IF IsSome(inherited) THEN inherited ELSE own

or_else(own, inherited) == IF IsSome(own) THEN own ELSE inherited

ProfileField(profile, f) == IF IsSome(profile) THEN Unwrap(profile)[f] ELSE None

ResolveOne(d, path) ==
    LET profile == EffectiveProfile(d, path)
    IN  [path          |-> path.path,
         encrypt       |-> or_else(path.encrypt, ProfileField(profile, "encrypt")),
         backup_method |-> or_else(path.backup_method, ProfileField(profile, "backup_method")),
         backup_to     |-> or_else(path.backup_to, ProfileField(profile, "backup_to")),
         interval      |-> or_else(path.interval, ProfileField(profile, "interval"))]

resolve_backup_paths_skip_dangling(d) ==
    LET kept == SelectSeq(d.backup_paths,
                    LAMBDA p : ~IsSome(p.profile) \/ contains_key(d.profiles, Unwrap(p.profile)))
    IN  [i \in 1..Len(kept) |-> ResolveOne(d, kept[i])]

resolve_backup_paths(d) ==
    [i \in 1..Len(d.backup_paths) |-> ResolveOne(d, d.backup_paths[i])]

(***************************************************************************)
(* Config::validate                                                        *)
(***************************************************************************)
exists(f, p) == p \in f

push(v, s) == Append(v, s)

ValidMethod(method) ==
    to_lowercase(method) \in {STR_local, STR_git, STR_gdrive, STR_pdrive, STR_dropbox}

ValidInterval(interval) ==
    ~ ( \/ ~(\E i \in 1..Len(interval) : is_digit(interval[i]))
        \/ ~(Len(interval) > 0 /\ interval[Len(interval)] \in {"d", "h", "m"}) )

\* if let Some(default) = &self.global.default_profile { ... }
CheckDefaultProfile(errs, d) ==
    IF IsSome(d.global.default_profile)
       /\ ~contains_key(d.profiles, Unwrap(d.global.default_profile))
    THEN push(errs, FMT_DEFAULT_PROFILE_PRE \o Unwrap(d.global.default_profile)
                        \o FMT_DEFAULT_PROFILE_POST)
    ELSE errs

CheckPathExists(errs, path, f) ==
    IF ~exists(f, path.path) THEN push(errs, FMT_PATH_MISSING \o path.path) ELSE errs

CheckProfileRef(errs, d, path) ==
    IF IsSome(path.profile) /\ ~contains_key(d.profiles, Unwrap(path.profile))
    THEN push(errs, FMT_PROFILE_MISSING \o Unwrap(path.profile))
    ELSE errs

RECURSIVE MethodLoop(_, _)
MethodLoop(errs, methods) ==
    IF methods = <<>> THEN errs
    ELSE MethodLoop(IF ValidMethod(Head(methods)) THEN errs
                    ELSE push(errs, FMT_BAD_METHOD \o Head(methods)),
                    Tail(methods))

CheckMethods(errs, path) ==
    IF IsSome(path.backup_method) THEN MethodLoop(errs, Unwrap(path.backup_method)) ELSE errs

CheckInterval(errs, path) ==
    IF IsSome(path.interval) /\ ~ValidInterval(Unwrap(path.interval))
    THEN push(errs, FMT_BAD_INTERVAL \o Unwrap(path.interval))
    ELSE errs

CheckBackupTo_slash_only(errs, path, f) ==
    IF ~IsSome(path.backup_to) THEN errs
    ELSE LET dest == Unwrap(path.backup_to)
         IN  IF starts_with(dest, <<"/">>)
             THEN IF ~exists(f, dest) THEN push(errs, FMT_DEST_INACCESSIBLE \o dest) ELSE errs
             ELSE IF ~starts_with(dest, STR_git_at) /\ ~starts_with(dest, STR_https)
                  THEN push(errs, FMT_DEST_FORMAT \o dest)
                  ELSE errs

CheckBackupTo(errs, path, f) ==
    IF ~IsSome(path.backup_to) THEN errs
    ELSE LET dest == Unwrap(path.backup_to)
         IN  IF starts_with(dest, <<"/">>) \/ starts_with(dest, STR_dot_slash)
             THEN IF ~exists(f, dest) THEN push(errs, FMT_DEST_INACCESSIBLE \o dest) ELSE errs
             ELSE IF ~starts_with(dest, STR_git_at) /\ ~starts_with(dest, STR_https)
                  THEN push(errs, FMT_DEST_FORMAT \o dest)
                  ELSE errs

\* body of `for path in &self.backup_paths`
ValidatePath_interval_first(errs, d, path, f) ==
    CheckBackupTo(
        CheckMethods(
            CheckInterval(
                CheckProfileRef(
                    CheckPathExists(errs, path, f), d, path), path), path), path, f)

ValidatePath(errs, d, path, f) ==
    CheckBackupTo(
        CheckInterval(
            CheckMethods(
                CheckProfileRef(
                    CheckPathExists(errs, path, f), d, path), path), path), path, f)

RECURSIVE PathLoop(_, _, _, _)
PathLoop(errs, d, paths, f) ==
    IF paths = <<>> THEN errs
    ELSE PathLoop(ValidatePath(errs, d, Head(paths), f), d, Tail(paths), f)

\* body of `for path in resolved`
CheckRequired_method_only(errs, rp) ==
    IF ~IsSome(rp.backup_method) THEN push(errs, FMT_NO_METHOD \o rp.path) ELSE errs

CheckRequired(errs, rp) ==
    LET e1 == IF ~IsSome(rp.backup_method) THEN push(errs, FMT_NO_METHOD \o rp.path) ELSE errs
    IN  IF ~IsSome(rp.backup_to) THEN push(e1, FMT_NO_DEST \o rp.path) ELSE e1

RECURSIVE RequiredLoop(_, _)
RequiredLoop(errs, rps) ==
    IF rps = <<>> THEN errs
    ELSE RequiredLoop(CheckRequired(errs, Head(rps)), Tail(rps))

\* the `errors` vector when the function reaches `if errors.is_empty()`
validate_errors(d, f) ==
    RequiredLoop(PathLoop(CheckDefaultProfile(<<>>, d), d, d.backup_paths, f),
                 resolve_backup_paths(d))

validate_result(errs) ==
    IF errs = <<>> THEN Ok(<<>>) ELSE Err(join(errs, <<"\n">>))

validate(d, f) == validate_result(validate_errors(d, f))

\* ConfigError::Invalid's #[error("Invalid configuration: {0}")]
to_string(e) == FMT_INVALID \o e

extract_paths(configs) == [i \in 1..Len(configs) |-> configs[i].path]

(***************************************************************************)
(* deserialize_config: the `?` on validate's result                        *)
(***************************************************************************)
\* config.validate().map_err(|e| e.to_string())
validate_ignored(d, f) == Ok(<<>>)

validate_map_err(d, f) ==
    LET v == validate(d, f)
    IN  IF v.tag = "Err" THEN Err(to_string(v.val)) ELSE v

(***************************************************************************)
(* Inputs: documents, filesystem states, I/O error texts                   *)
(***************************************************************************)
MaxPaths == 2

NAME_p == <<"p">>

NAME_q == <<"q">>

NAME_zz == <<"z", "z">>

PATH_a == <<"/", "a">>

PATH_b == <<"/", "b">>

DEST_d == <<"/", "d">>

DEST_rel == <<".", "/", "d">>

DEST_git == <<"g", "i", "t", "@", "h">>

DEST_https == <<"h", "t", "t", "p", "s", ":", "/", "/", "h">>

DEST_ftp == <<"f", "t", "p", ":", "h">>

IoErrors == {<<"E", "N", "O", "E", "N", "T">>}

ParseErrors == {<<"b", "a", "d", " ", "t", "o", "m", "l">>}

Profile(e, m, t, i) == [encrypt |-> e, backup_method |-> m, backup_to |-> t, interval |-> i]

BackupPath(p, pr, e, m, t, i) ==
    [path |-> p, profile |-> pr, encrypt |-> e, backup_method |-> m, backup_to |-> t,
     interval |-> i]

Config(dp, profs, paths) ==
    [global |-> [default_profile |-> dp], profiles |-> profs, backup_paths |-> paths]

ProfNone == Profile(None, None, None, None)

ProfFull == Profile(Some(TRUE), Some(<<STR_local, STR_dropbox>>), Some(DEST_https),
                    Some(<<"3", "0", "m">>))

ProfBad == Profile(None, Some(<<<<"f", "t", "p">>>>), Some(DEST_ftp), Some(<<"1", "0", "x">>))

\* profile tables over every subset of the declared names p, q
ProfileMaps == UNION {[S -> {ProfNone, ProfFull, ProfBad}] : S \in SUBSET {NAME_p, NAME_q}}

\* one path, every combination of profile reference, default and set/unset fields
DocsResolution ==
    {Config(dp, profs, <<BackupPath(PATH_a, pr, e, m, t, i)>>) :
        dp \in {None, Some(NAME_p), Some(NAME_zz)},
        profs \in ProfileMaps,
        pr \in {None, Some(NAME_q), Some(NAME_zz)},
        e \in {None, Some(FALSE)},
        m \in {None, Some(<<<<"G", "i", "t">>>>)},
        t \in {None, Some(DEST_git)},
        i \in {None, Some(<<"5", "h">>)}}

\* one path, every combination of field contents the validator distinguishes
DocsValidation ==
    {Config(dp, <<>>, <<BackupPath(PATH_a, pr, None, m, t, i)>>) :
        dp \in {None, Some(NAME_zz)},
        pr \in {None, Some(NAME_zz)},
        m \in {None, Some(<<<<"G", "i", "t">>>>),
               Some(<<<<"f", "t", "p">>, STR_local, <<"a", "\n", "b">>>>)},
        t \in {None, Some(DEST_d), Some(DEST_rel), Some(DEST_git), Some(DEST_https),
               Some(DEST_ftp)},
        i \in {None, Some(<<"5", "h">>), Some(<<"1", "0", "x">>), Some(<<"d">>), Some(<<>>)}}

PathsForLists ==
    { BackupPath(PATH_a, None, None, None, None, None),
      BackupPath(PATH_b, Some(NAME_zz), None, Some(<<<<"f", "t", "p">>>>), Some(DEST_ftp),
                 Some(<<"1", "0", "x">>)),
      BackupPath(PATH_a, Some(NAME_p), Some(FALSE), Some(<<<<"G", "i", "t">>>>),
                 Some(DEST_git), Some(<<"5", "h">>)),
      BackupPath(PATH_b, None, None, None, Some(DEST_d), None) }

PathLists == UNION {[1..n -> PathsForLists] : n \in 0..MaxPaths}

\* zero to MaxPaths paths
DocsLists ==
    {Config(dp, profs, paths) :
        dp \in {None, Some(NAME_p), Some(NAME_zz)},
        profs \in {<<>>, [n \in {NAME_p} |-> ProfFull]},
        paths \in PathLists}

(***************************************************************************)
(* State machine                                                           *)
(***************************************************************************)
Init ==
    /\ \/ doc \in DocsResolution /\ fs = {PATH_a}
       \/ doc \in DocsValidation /\ fs \in SUBSET {PATH_a, DEST_d, DEST_rel, DEST_https}
       \/ doc \in DocsLists /\ fs \in {{}, {PATH_a}, {PATH_a, PATH_b, DEST_d}}
    /\ pc = "idle"
    /\ resolved = None
    /\ errors = <<>>
    /\ outcome = None
    /\ config = None
    /\ ran = <<>>
    /\ result = None
    /\ watch_paths = None

\* a caller invokes Config::resolve_backup_paths on the document
Resolve ==
    /\ pc = "idle"
    /\ resolved' = Some(resolve_backup_paths(doc))
    /\ pc' = "resolved"
    /\ UNCHANGED <<doc, fs, errors, outcome, config, ran, result, watch_paths>>

\* a caller invokes Config::validate on the document
Validate ==
    /\ pc = "idle"
    /\ errors' = validate_errors(doc, fs)
    /\ outcome' = Some(validate(doc, fs))
    /\ pc' = "validated"
    /\ UNCHANGED <<doc, fs, resolved, config, ran, result, watch_paths>>

Stage(name, ok) == [stage |-> name, ok |-> ok]

\* ProjectDirs::from("", "", "bacman").ok_or_else(...)
Locate ==
    /\ pc = "idle"
    /\ \E ok \in BOOLEAN :
        /\ ran' = Append(ran, Stage("locate", ok))
        /\ IF ok THEN pc' = "read" /\ result' = result
                 ELSE pc' = "done" /\ result' = Some(Err(FMT_NO_DIRS))
    /\ UNCHANGED <<doc, fs, resolved, errors, outcome, config, watch_paths>>

\* fs::read_to_string(&config_path).map_err(...)
Read ==
    /\ pc = "read"
    /\ \/ /\ ran' = Append(ran, Stage("read", TRUE))
          /\ pc' = "parse"
          /\ result' = result
       \/ \E e \in IoErrors :
          /\ ran' = Append(ran, Stage("read", FALSE))
          /\ pc' = "done"
          /\ result' = Some(Err(FMT_READ \o e))
    /\ UNCHANGED <<doc, fs, resolved, errors, outcome, config, watch_paths>>

\* toml::from_str::<Config>(&config_str).map_err(...)?
Parse ==
    /\ pc = "parse"
    /\ \/ /\ ran' = Append(ran, Stage("parse", TRUE))
          /\ config' = Some(doc)
          /\ pc' = "validate"
          /\ result' = result
       \/ \E e \in ParseErrors :
          /\ ran' = Append(ran, Stage("parse", FALSE))
          /\ config' = config
          /\ pc' = "done"
          /\ result' = Some(Err(FMT_PARSE \o e))
    /\ UNCHANGED <<doc, fs, resolved, errors, outcome, watch_paths>>

\* config.validate().map_err(|e| e.to_string())?
ValidateStage ==
    /\ pc = "validate"
    /\ LET v == validate_map_err(Unwrap(config), fs)
       IN  /\ ran' = Append(ran, Stage("validate", v.tag = "Ok"))
           /\ IF v.tag = "Ok" THEN pc' = "resolve" /\ result' = result
                              ELSE pc' = "done" /\ result' = Some(v)
    /\ UNCHANGED <<doc, fs, resolved, errors, outcome, config, watch_paths>>

\* Ok(config.resolve_backup_paths())
ResolveStage ==
    /\ pc = "resolve"
    /\ ran' = Append(ran, Stage("resolve", TRUE))
    /\ result' = Some(Ok(resolve_backup_paths(Unwrap(config))))
    /\ pc' = "done"
    /\ UNCHANGED <<doc, fs, resolved, errors, outcome, config, watch_paths>>

\* main: Ok(config) => extract_paths, watcher(watch_paths)
MainOk ==
    /\ pc = "done"
    /\ Unwrap(result).tag = "Ok"
    /\ watch_paths' = Some(extract_paths(Unwrap(result).val))
    /\ pc' = "watching"
    /\ UNCHANGED <<doc, fs, resolved, errors, outcome, config, ran, result>>

\* main: Err(err) => panic!
MainErr ==
    /\ pc = "done"
    /\ Unwrap(result).tag = "Err"
    /\ pc' = "panicked"
    /\ UNCHANGED <<doc, fs, resolved, errors, outcome, config, ran, result, watch_paths>>

Next ==
    \/ Resolve
    \/ Validate
    \/ Locate
    \/ Read
    \/ Parse
    \/ ValidateStage
    \/ ResolveStage
    \/ MainOk
    \/ MainErr

Spec == Init /\ [][Next]_vars

(***************************************************************************)
(* Vocabulary of the properties                                            *)
(***************************************************************************)
Fields == {"encrypt", "backup_method", "backup_to", "interval"}

Dangling(d, name) == IsSome(name) /\ Unwrap(name) \notin DOMAIN d.profiles

\* the merge of a path's own fields over a profile (or none), field by field
Merged(p, prof, r) ==
    \A f \in Fields :
        IF IsSome(p[f]) THEN r[f] = p[f]
        ELSE IF IsSome(prof) /\ IsSome(Unwrap(prof)[f]) THEN r[f] = Unwrap(prof)[f]
        ELSE r[f] = None

RECURSIVE Flatten(_)
Flatten(ss) == IF ss = <<>> THEN <<>> ELSE Head(ss) \o Flatten(Tail(ss))

Newlines(s) == Cardinality({i \in 1..Len(s) : s[i] = "\n"})

LineCount(s) == Newlines(s) + 1

OfKind(errs, prefix) == SelectSeq(errs, LAMBDA m : starts_with(m, prefix))

Messages(items, prefix, text(_)) == [i \in 1..Len(items) |-> prefix \o text(items[i])]

LooksLocal(dest) ==
    \/ Len(dest) >= 1 /\ dest[1] = "/"
    \/ Len(dest) >= 2 /\ dest[1] = "." /\ dest[2] = "/"

LooksRemote(dest) ==
    \/ Len(dest) >= 4 /\ SubSeq(dest, 1, 4) = <<"g", "i", "t", "@">>
    \/ Len(dest) >= 8 /\ SubSeq(dest, 1, 8) = <<"h", "t", "t", "p", "s", ":", "/", "/">>

IntervalPattern(s) ==
    /\ \E i \in 1..Len(s) : s[i] \in {"0","1","2","3","4","5","6","7","8","9"}
    /\ Len(s) >= 1
    /\ s[Len(s)] \in {"d", "h", "m"}

KnownMethod(m) ==
    to_lowercase(m) \in {<<"l","o","c","a","l">>, <<"g","i","t">>, <<"g","d","r","i","v","e">>,
                         <<"p","d","r","i","v","e">>, <<"d","r","o","p","b","o","x">>}

StageOrder == <<"locate", "read", "parse", "validate", "resolve">>

(***************************************************************************)
(* C1. resolve_backup_paths returns, for every document (dangling profile  *)
(* references included), exactly one entry per declared BackupPath, in     *)
(* declaration order, the i-th entry carrying the i-th path; the call      *)
(* always yields a list.                                                   *)
(***************************************************************************)
C1_OnePerPathInOrder ==
    pc = "resolved" =>
        /\ IsSome(resolved)
        /\ Len(Unwrap(resolved)) = Len(doc.backup_paths)
        /\ \A i \in 1..Len(doc.backup_paths) :
              Unwrap(resolved)[i].path = doc.backup_paths[i].path

C1_Witness ==
    /\ pc = "resolved"
    /\ Len(doc.backup_paths) >= 2
    /\ doc.backup_paths[1].path # doc.backup_paths[2].path
    /\ Dangling(doc, doc.global.default_profile)
    /\ \E i \in 1..Len(doc.backup_paths) : Dangling(doc, doc.backup_paths[i].profile)

C3_ExplicitProfileOnly ==
    pc = "resolved" =>
        \A i \in 1..Len(doc.backup_paths) :
            LET p == doc.backup_paths[i]
            IN  IsSome(p.profile) =>
                    Merged(p,
                           IF Dangling(doc, p.profile) THEN None
                           ELSE Some(doc.profiles[Unwrap(p.profile)]),
                           Unwrap(resolved)[i])

(***************************************************************************)
(* C4. validate succeeds exactly when no violation was recorded, and a     *)
(* failure message has exactly as many lines as there are violations.      *)
(***************************************************************************)
C4_OneLinePerViolation ==
    pc = "validated" =>
        /\ Unwrap(outcome).tag = "Ok" <=> Len(errors) = 0
        /\ Unwrap(outcome).tag = "Err" => LineCount(Unwrap(outcome).val) = Len(errors)

(***************************************************************************)
(* C5. After a successful validate every resolved entry has backup_method  *)
(* and backup_to; and the missing-method (missing-destination) violations  *)
(* recorded are exactly one per resolved entry lacking that field, so an   *)
(* entry lacking both contributes two.                                     *)
(***************************************************************************)
C5_RequiredAfterResolution ==
    pc = "validated" =>
        LET rs == resolve_backup_paths(doc)
            path_of(r) == r.path
        IN  /\ Unwrap(outcome).tag = "Ok" =>
                  \A i \in 1..Len(rs) : IsSome(rs[i].backup_method) /\ IsSome(rs[i].backup_to)
            /\ OfKind(errors, FMT_NO_METHOD) =
                  Messages(SelectSeq(rs, LAMBDA r : r.backup_method = None),
                           FMT_NO_METHOD, path_of)
            /\ OfKind(errors, FMT_NO_DEST) =
                  Messages(SelectSeq(rs, LAMBDA r : r.backup_to = None),
                           FMT_NO_DEST, path_of)

C5_Witness ==
    /\ pc = "validated"
    /\ Len(doc.backup_paths) >= 2
    /\ LET rs == resolve_backup_paths(doc)
       IN  /\ \E i \in 1..Len(rs) : rs[i].backup_method = None /\ rs[i].backup_to = None
           /\ \E i \in 1..Len(rs) : rs[i].backup_method = None /\ rs[i].backup_to # None
    /\ Len(OfKind(errors, FMT_NO_METHOD)) > Len(OfKind(errors, FMT_NO_DEST))
    /\ Len(OfKind(errors, FMT_NO_DEST)) > 0

(***************************************************************************)
(* C6. After a successful validate every backup_method entry of every      *)
(* resolved entry, own or inherited, is one of local, git, gdrive, pdrive, *)
(* dropbox up to case.                                                     *)
(***************************************************************************)
C6_ResolvedMethodsKnown ==
    (pc = "validated" /\ Unwrap(outcome).tag = "Ok") =>
        LET rs == resolve_backup_paths(doc)
        IN  \A i \in 1..Len(rs) :
                IsSome(rs[i].backup_method) =>
                    \A k \in 1..Len(Unwrap(rs[i].backup_method)) :
                        KnownMethod(Unwrap(rs[i].backup_method)[k])

(***************************************************************************)
(* C7. Every interval string of the document, on a BackupPath or on a      *)
(* Profile, that lacks a digit or does not end in d, h or m is recorded as *)
(* a violation; so after a successful validate every resolved interval has *)
(* the pattern.                                                            *)
(***************************************************************************)
C7_IntervalsChecked ==
    pc = "validated" =>
        LET declared ==
                {doc.backup_paths[i].interval : i \in 1..Len(doc.backup_paths)}
                \cup {doc.profiles[n].interval : n \in DOMAIN doc.profiles}
            rs == resolve_backup_paths(doc)
        IN  /\ \A iv \in declared :
                  (IsSome(iv) /\ ~IntervalPattern(Unwrap(iv))) =>
                      \E k \in 1..Len(errors) : errors[k] = FMT_BAD_INTERVAL \o Unwrap(iv)
            /\ Unwrap(outcome).tag = "Ok" =>
                  \A i \in 1..Len(rs) :
                      IsSome(rs[i].interval) => IntervalPattern(Unwrap(rs[i].interval))

(***************************************************************************)
(* C8. The destination violations recorded are exactly: one "not           *)
(* accessible" per BackupPath whose backup_to begins with / or ./ and does *)
(* not exist, and one "invalid format" per BackupPath whose backup_to      *)
(* begins with none of /, ./, git@, https://; a git@ or https:// value     *)
(* records nothing in any filesystem state.                                *)
(***************************************************************************)
C8_DestinationClassified ==
    pc = "validated" =>
        LET withDest == SelectSeq(doc.backup_paths, LAMBDA p : p.backup_to # None)
            dest_of(p) == Unwrap(p.backup_to)
        IN  /\ OfKind(errors, FMT_DEST_INACCESSIBLE) =
                  Messages(SelectSeq(withDest,
                               LAMBDA p : LooksLocal(dest_of(p)) /\ dest_of(p) \notin fs),
                           FMT_DEST_INACCESSIBLE, dest_of)
            /\ OfKind(errors, FMT_DEST_FORMAT) =
                  Messages(SelectSeq(withDest,
                               LAMBDA p : ~LooksLocal(dest_of(p)) /\ ~LooksRemote(dest_of(p))),
                           FMT_DEST_FORMAT, dest_of)

C8_Witness ==
    /\ pc = "validated"
    /\ \E k \in 1..Len(errors) : starts_with(errors[k], FMT_DEST_INACCESSIBLE)
    /\ \E k \in 1..Len(errors) : starts_with(errors[k], FMT_DEST_FORMAT)

(***************************************************************************)
(* C9. The loader's stages run in the order locate, read, parse, validate, *)
(* resolve; no stage runs after a failed one, and the load then ends with  *)
(* that stage's error; a list is returned only after all five stages       *)
(* succeeded, on a document without violations, and it is the resolution   *)
(* of the parsed document.                                                 *)
(***************************************************************************)
C9_LoaderPipeline ==
    LET n == Len(ran)
        ended == pc \in {"done", "watching", "panicked"}
    IN  /\ n <= Len(StageOrder)
        /\ \A i \in 1..n : ran[i].stage = StageOrder[i]
        /\ \A i \in 1..n : i < n => ran[i].ok
        /\ IsSome(result) <=> ended
        /\ (n > 0 /\ ~ran[n].ok) =>
              /\ ended
              /\ Unwrap(result).tag = "Err"
              /\ starts_with(Unwrap(result).val,
                    CASE ran[n].stage = "locate" -> FMT_NO_DIRS
                      [] ran[n].stage = "read" -> FMT_READ
                      [] ran[n].stage = "parse" -> FMT_PARSE
                      [] OTHER -> FMT_INVALID)
              /\ ran[n].stage # "resolve"
        /\ (ended /\ Unwrap(result).tag = "Err") => ~ran[n].ok
        /\ (ended /\ Unwrap(result).tag = "Ok") =>
              /\ n = Len(StageOrder)
              /\ \A i \in 1..n : ran[i].ok
              /\ config = Some(doc)
              /\ validate_errors(doc, fs) = <<>>
              /\ Unwrap(result).val = resolve_backup_paths(doc)

C9_Witness ==
    /\ pc = "done"
    /\ Unwrap(result).tag = "Ok"
    /\ Len(Unwrap(result).val) >= 2
    /\ Len(ran) = 5

(***************************************************************************)
(* C10. The recorded violations are, in this order: the dangling           *)
(* default_profile violation (once for the document); then for each        *)
(* BackupPath in declaration order its path-missing, profile-not-found,    *)
(* invalid-method (in list order), invalid-interval and destination        *)
(* violations; then, after those of all paths, the missing-method and      *)
(* missing-destination violations of the resolved entries in declaration   *)
(* order.                                                                  *)
(***************************************************************************)
ViolationsOfDefault(d) ==
    IF Dangling(d, d.global.default_profile)
    THEN <<FMT_DEFAULT_PROFILE_PRE \o Unwrap(d.global.default_profile)
             \o FMT_DEFAULT_PROFILE_POST>>
    ELSE <<>>

ViolationsOfPath(d, f, p) ==
    LET id(x) == x
    IN  (IF p.path \notin f THEN <<FMT_PATH_MISSING \o p.path>> ELSE <<>>)
        \o (IF Dangling(d, p.profile) THEN <<FMT_PROFILE_MISSING \o Unwrap(p.profile)>>
            ELSE <<>>)
        \o (IF IsSome(p.backup_method)
            THEN Messages(SelectSeq(Unwrap(p.backup_method), LAMBDA m : ~KnownMethod(m)),
                          FMT_BAD_METHOD, id)
            ELSE <<>>)
        \o (IF IsSome(p.interval) /\ ~IntervalPattern(Unwrap(p.interval))
            THEN <<FMT_BAD_INTERVAL \o Unwrap(p.interval)>> ELSE <<>>)
        \o (IF ~IsSome(p.backup_to) THEN <<>>
            ELSE IF LooksLocal(Unwrap(p.backup_to))
                 THEN IF Unwrap(p.backup_to) \notin f
                      THEN <<FMT_DEST_INACCESSIBLE \o Unwrap(p.backup_to)>> ELSE <<>>
                 ELSE IF LooksRemote(Unwrap(p.backup_to)) THEN <<>>
                      ELSE <<FMT_DEST_FORMAT \o Unwrap(p.backup_to)>>)

ViolationsOfEntry(r) ==
    (IF r.backup_method = None THEN <<FMT_NO_METHOD \o r.path>> ELSE <<>>)
    \o (IF r.backup_to = None THEN <<FMT_NO_DEST \o r.path>> ELSE <<>>)

C10_ViolationOrder ==
    pc = "validated" =>
        LET rs == resolve_backup_paths(doc)
        IN  errors =
                ViolationsOfDefault(doc)
                \o Flatten([i \in 1..Len(doc.backup_paths) |->
                               ViolationsOfPath(doc, fs, doc.backup_paths[i])])
                \o Flatten([i \in 1..Len(rs) |-> ViolationsOfEntry(rs[i])])

C10_Witness ==
    /\ pc = "validated"
    /\ Len(doc.backup_paths) >= 2
    /\ Dangling(doc, doc.global.default_profile)
    /\ starts_with(errors[1], FMT_DEFAULT_PROFILE_PRE)
    /\ resolve_backup_paths(doc)[1].backup_method = None
    /\ \E j, k \in 1..Len(errors) :
          /\ j < k
          /\ starts_with(errors[j], FMT_BAD_METHOD)
          /\ starts_with(errors[k], FMT_BAD_INTERVAL)
    /\ starts_with(errors[Len(errors)], FMT_NO_DEST)

====
